---- MODULE Spec2Model ----
(***************************************************************************)
(* WGAN-GP training of the neural painter: the training loop of           *)
(* train_gan_neural_painter and the interpolation of                      *)
(* calc_gradient_penalty (src/neural_painters/gan_painter.py).             *)
(*                                                                         *)
(* Tensors of the loop are abstracted to what autograd tracks about them:  *)
(* the set of networks whose parameters a value depends on with gradient   *)
(* tracking.  Parameters are version counters, gradient buffers are the    *)
(* sets of (step, loss) contributions accumulated in them.                 *)
(***************************************************************************)
EXTENDS Integers, Sequences, FiniteSets, TLC

\* ---- bounds of the model ------------------------------------------------
MaxDiscIters == 5
MaxEvery     == 2
MaxBatches   == 12
MaxBatchSize == 2
Side         == 1
MaxPix       == 1
EpsDen       == 2

\* ---- program constants --------------------------------------------------
batch_idx_offset == 0
Channels         == 3

Nets == {"disc", "gen"}

\* Values a caller can pass for an integer configuration parameter: the code
\* checks none of them, so zero and a negative value are inputs too.
DiscItersValues == (-1) .. MaxDiscIters
CadenceValues   == (-1) .. MaxEvery

VARIABLES
  disc_iters, save_every_n_steps, log_every_n_steps, tensorboard_every_n_steps,
  nBatches,          \* length of the loader's (finite) batch sequence
  pc,                \* position of the training function
  errLine,           \* source line of the exception that ended the run, 0 if none
  k,                 \* batches taken from enumerate(loader) so far
  batch_idx,         \* the loop's step index
  requires_grad,     \* requires_grad flag of the discriminator's parameters
  params,            \* net -> version of its parameters
  grads,             \* net -> contributions accumulated in its .grad buffers
  loss,              \* leaves of the autograd graph of the current loss
  scalars,           \* writer.add_scalar calls, in order: <<tag, step>>
  imgs,              \* writer.add_images calls, in order: <<tag, step>>
  printed,           \* console lines, in order: step
  saved,             \* step indices of the checkpoints written
  steps,             \* history: one record per step whose kind was selected
  pre,               \* history: params when the current step began
  gp_pc, real_data, fake_data, eps_rand, epsilon, interpolates

cfgvars   == <<disc_iters, save_every_n_steps, log_every_n_steps,
               tensorboard_every_n_steps, nBatches>>
trainvars == <<pc, errLine, k, batch_idx, requires_grad, params, grads, loss,
               scalars, imgs, printed, saved, steps, pre>>
gpvars    == <<gp_pc, real_data, fake_data, eps_rand, epsilon, interpolates>>
vars      == <<cfgvars, trainvars, gpvars>>

\* ---- Python arithmetic --------------------------------------------------
\* a % b of Python for b # 0: the result takes the sign of the divisor.
PyMod(a, b) == IF b > 0 THEN a % b ELSE 0 - ((0 - a) % (0 - b))

\* ---- autograd, abstracted -----------------------------------------------
\* generator(actions): the generator's parameters always require grad.
GeneratorForward == {"gen"}

\* t.detach(): cut from its graph.
Detach(t) == {}

\* discriminator(x, actions): depends on x and, when its parameters require
\* grad, on them.
DiscriminatorForward(x, flag) == x \cup (IF flag THEN {"disc"} ELSE {})

\* calc_gradient_penalty(discriminator, strokes.detach(), generated.detach(), ...):
\* the interpolates are a fresh leaf; the penalty is built from the critic's
\* gradient with create_graph=True, so it depends on the critic's parameters.
CalcGradientPenalty(real, fake, flag) ==
  DiscriminatorForward(real \cup fake \cup {"interpolates"}, flag)

\* loss.backward(): accumulate into .grad of every parameter leaf of the graph.
Backward(g, leaves, c) ==
  [n \in Nets |-> IF n \in leaves THEN g[n] \cup {c} ELSE g[n]]

\* The parameters each optimizer was built over.
optim_disc_all == {"disc", "gen"}
optim_disc == {"disc"}
optim_gen  == {"gen"}

\* optimizer.zero_grad()
ZeroGradSkipped(group, g) == g
ZeroGrad(group, g) == [n \in Nets |-> IF n \in group THEN {} ELSE g[n]]

\* optimizer.step(): Adam updates the parameters of its group that have a grad.
OptimizerStep(group, p, g) ==
  [n \in Nets |-> IF n \in group /\ g[n] # {} THEN p[n] + 1 ELSE p[n]]

\* ---- the loop's decisions -------------------------------------------------
\* batch_idx += batch_idx_offset, for the i-th value of enumerate
BatchIdxPerEpoch(i) == (i % 4) + batch_idx_offset
BatchIdx(i) == i + batch_idx_offset

\* (batch_idx + 1) % (disc_iters + 1) == 0
IsGeneratorStepEarly(idx, d) == PyMod(idx, d + 1) = 0
IsGeneratorStep(idx, d) == PyMod(idx + 1, d + 1) = 0

\* p.requires_grad = False / True at the head of the two branches
GenStepRequiresGrad  == FALSE
DiscStepKeepsFlag == requires_grad
DiscStepRequiresGrad == TRUE

GenScalarTags  == <<"generator_loss">>
DiscScalarTagsShort == <<"discriminator_loss", "real_score", "generated_score">>
DiscScalarTags == <<"discriminator_loss", "real_score", "generated_score",
                    "gradient_penalty">>

RECURSIVE AddScalars(_, _, _)
AddScalars(w, tags, idx) ==
  IF tags = <<>> THEN w
  ELSE AddScalars(Append(w, <<Head(tags), idx>>), Tail(tags), idx)

\* ---- calc_gradient_penalty: the interpolation -----------------------------
\* Index set of a (batch, 3, 64, 64) tensor, the image side scaled to Side.
Idx(B) == (1 .. B) \X (1 .. Channels) \X (1 .. Side) \X (1 .. Side)

\* real_data.shape[0]
Shape0(t) == Cardinality({x[1] : x \in DOMAIN t})

\* t.nelement()
NElement(t) == Cardinality(DOMAIN t)

\* Row-major offset (from 1) of element x of a contiguous (B, 3, Side, Side) tensor.
FlatIndex(x) ==
  (((x[1] - 1) * Channels + (x[2] - 1)) * Side + (x[3] - 1)) * Side + x[4]

\* e.expand(B, P).contiguous() of a (B, 1) tensor e: the B*P elements in
\* row-major order, row i repeating e[i].
ExpandColumnMajor(e, B, P) == [f \in 1 .. (B * P) |-> e[((f - 1) % B) + 1]]
ExpandContiguous(e, B, P) == [f \in 1 .. (B * P) |-> e[((f - 1) \div P) + 1]]

\* flat.view(B, 3, Side, Side)
View(flat, B) == [x \in Idx(B) |-> flat[FlatIndex(x)]]

\* epsilon * real_data + ((1.0 - epsilon) * fake_data), in units of 1/EpsDen
Interpolate(e, real, fake) ==
  [x \in DOMAIN real |-> e[x] * real[x] + (EpsDen - e[x]) * fake[x]]

\* An input image: pixel values in 0 .. MaxPix that differ between positions.
Image(seed, x) == (seed + x[2] + x[3] + x[4]) % (MaxPix + 1)

\* ---- initial state --------------------------------------------------------
GPIdle ==
  /\ gp_pc = "idle"
  /\ real_data = <<>>
  /\ fake_data = <<>>
  /\ eps_rand = <<>>
  /\ epsilon = <<>>
  /\ interpolates = <<>>

TrainStart ==
  /\ pc = "fetch"
  /\ errLine = 0
  /\ k = 0
  /\ batch_idx = -1       \* not bound before the first batch
  /\ requires_grad = TRUE
  /\ params = [n \in Nets |-> 0]
  /\ grads = [n \in Nets |-> {}]
  /\ loss = {}
  /\ scalars = <<>>
  /\ imgs = <<>>
  /\ printed = <<>>
  /\ saved = {}
  /\ steps = <<>>
  /\ pre = [n \in Nets |-> 0]

Init ==
  /\ disc_iters \in DiscItersValues
  /\ save_every_n_steps \in CadenceValues
  /\ log_every_n_steps \in CadenceValues
  /\ tensorboard_every_n_steps \in CadenceValues
  /\ nBatches \in 0 .. MaxBatches
  /\ TrainStart
  /\ GPIdle

\* ---- the training loop ----------------------------------------------------
\* for batch_idx, batch in enumerate(loader): batch_idx += batch_idx_offset
FetchBatch ==
  /\ pc = "fetch"
  /\ k < nBatches
  /\ batch_idx' = BatchIdx(k)
  /\ k' = k + 1
  /\ pre' = params
  /\ pc' = "select"
  /\ UNCHANGED <<errLine, requires_grad, params, grads, loss, scalars, imgs,
                 printed, saved, steps>>
  /\ UNCHANGED <<cfgvars, gpvars>>

\* the loader is exhausted: the function returns
LoaderExhausted ==
  /\ pc = "fetch"
  /\ k >= nBatches
  /\ pc' = "done"
  /\ UNCHANGED <<errLine, k, batch_idx, requires_grad, params, grads, loss,
                 scalars, imgs, printed, saved, steps, pre>>
  /\ UNCHANGED <<cfgvars, gpvars>>

\* line 124 with disc_iters = -1: ZeroDivisionError
SelectRaises ==
  /\ pc = "select"
  /\ disc_iters + 1 = 0
  /\ pc' = "error"
  /\ errLine' = 124
  /\ UNCHANGED <<k, batch_idx, requires_grad, params, grads, loss, scalars,
                 imgs, printed, saved, steps, pre>>
  /\ UNCHANGED <<cfgvars, gpvars>>

\* generator branch up to the loss: freeze the critic, zero_grad, forward
GenForward ==
  /\ pc = "select"
  /\ disc_iters + 1 # 0
  /\ IsGeneratorStep(batch_idx, disc_iters)
  /\ steps' = Append(steps, [ord |-> k - 1, idx |-> batch_idx, kind |-> "gen"])
  /\ requires_grad' = GenStepRequiresGrad
  /\ grads' = ZeroGrad(optim_gen, grads)
  /\ loss' = DiscriminatorForward(GeneratorForward, requires_grad')
  /\ pc' = "gen_backward"
  /\ UNCHANGED <<errLine, k, batch_idx, params, scalars, imgs, printed, saved,
                 pre>>
  /\ UNCHANGED <<cfgvars, gpvars>>

\* generator_loss.backward()
GenBackward ==
  /\ pc = "gen_backward"
  /\ grads' = Backward(grads, loss, <<batch_idx, "generator_loss">>)
  /\ pc' = "gen_optim"
  /\ UNCHANGED <<errLine, k, batch_idx, requires_grad, params, loss, scalars,
                 imgs, printed, saved, steps, pre>>
  /\ UNCHANGED <<cfgvars, gpvars>>

\* optim_gen.step(); writer.add_scalar('generator_loss', ...)
GenOptimStep ==
  /\ pc = "gen_optim"
  /\ params' = OptimizerStep(optim_gen, params, grads)
  /\ scalars' = AddScalars(scalars, GenScalarTags, batch_idx)
  /\ pc' = "tensorboard"
  /\ UNCHANGED <<errLine, k, batch_idx, requires_grad, grads, loss, imgs,
                 printed, saved, steps, pre>>
  /\ UNCHANGED <<cfgvars, gpvars>>

\* discriminator branch up to the loss: unfreeze, zero_grad, forward passes
DiscForward ==
  /\ pc = "select"
  /\ disc_iters + 1 # 0
  /\ ~IsGeneratorStep(batch_idx, disc_iters)
  /\ steps' = Append(steps, [ord |-> k - 1, idx |-> batch_idx, kind |-> "disc"])
  /\ requires_grad' = DiscStepRequiresGrad
  /\ grads' = ZeroGrad(optim_disc, grads)
  /\ LET real_score      == DiscriminatorForward({}, requires_grad')
         generated       == GeneratorForward
         generated_score == DiscriminatorForward(generated, requires_grad')
         gradient_penalty ==
           CalcGradientPenalty(Detach({}), Detach(generated), requires_grad')
     IN  loss' = real_score \cup generated_score \cup gradient_penalty
  /\ pc' = "disc_backward"
  /\ UNCHANGED <<errLine, k, batch_idx, params, scalars, imgs, printed, saved,
                 pre>>
  /\ UNCHANGED <<cfgvars, gpvars>>

\* disc_loss.backward()
DiscBackward ==
  /\ pc = "disc_backward"
  /\ grads' = Backward(grads, loss, <<batch_idx, "discriminator_loss">>)
  /\ pc' = "disc_optim"
  /\ UNCHANGED <<errLine, k, batch_idx, requires_grad, params, loss, scalars,
                 imgs, printed, saved, steps, pre>>
  /\ UNCHANGED <<cfgvars, gpvars>>

\* optim_disc.step(); the four writer.add_scalar calls
DiscOptimStep ==
  /\ pc = "disc_optim"
  /\ params' = OptimizerStep(optim_disc, params, grads)
  /\ scalars' = AddScalars(scalars, DiscScalarTags, batch_idx)
  /\ pc' = "tensorboard"
  /\ UNCHANGED <<errLine, k, batch_idx, requires_grad, grads, loss, imgs,
                 printed, saved, steps, pre>>
  /\ UNCHANGED <<cfgvars, gpvars>>

\* line 160 with tensorboard_every_n_steps = 0: ZeroDivisionError
TensorboardRaises ==
  /\ pc = "tensorboard"
  /\ tensorboard_every_n_steps = 0
  /\ pc' = "error"
  /\ errLine' = 160
  /\ UNCHANGED <<k, batch_idx, requires_grad, params, grads, loss, scalars,
                 imgs, printed, saved, steps, pre>>
  /\ UNCHANGED <<cfgvars, gpvars>>

\* if batch_idx % tensorboard_every_n_steps == 0: two add_images
TensorboardImages ==
  /\ pc = "tensorboard"
  /\ tensorboard_every_n_steps # 0
  /\ imgs' = IF PyMod(batch_idx, tensorboard_every_n_steps) = 0
             THEN imgs \o << <<"img_in", batch_idx>>, <<"img_out", batch_idx>> >>
             ELSE imgs
  /\ pc' = "console"
  /\ UNCHANGED <<errLine, k, batch_idx, requires_grad, params, grads, loss,
                 scalars, printed, saved, steps, pre>>
  /\ UNCHANGED <<cfgvars, gpvars>>

\* line 163 with log_every_n_steps = 0: ZeroDivisionError
ConsoleRaises ==
  /\ pc = "console"
  /\ log_every_n_steps = 0
  /\ pc' = "error"
  /\ errLine' = 163
  /\ UNCHANGED <<k, batch_idx, requires_grad, params, grads, loss, scalars,
                 imgs, printed, saved, steps, pre>>
  /\ UNCHANGED <<cfgvars, gpvars>>

\* if batch_idx % log_every_n_steps == 0: print; then the next iteration
ConsoleLog ==
  /\ pc = "console"
  /\ log_every_n_steps # 0
  /\ printed' = IF PyMod(batch_idx, log_every_n_steps) = 0
                THEN Append(printed, batch_idx)
                ELSE printed
  /\ pc' = "fetch"
  /\ UNCHANGED <<errLine, k, batch_idx, requires_grad, params, grads, loss,
                 scalars, imgs, saved, steps, pre>>
  /\ UNCHANGED <<cfgvars, gpvars>>

Next ==
  \/ FetchBatch
  \/ LoaderExhausted
  \/ SelectRaises
  \/ GenForward
  \/ GenBackward
  \/ GenOptimStep
  \/ DiscForward
  \/ DiscBackward
  \/ DiscOptimStep
  \/ TensorboardRaises
  \/ TensorboardImages
  \/ ConsoleRaises
  \/ ConsoleLog

Spec == Init /\ [][Next]_vars

\* ---- calc_gradient_penalty on its own -------------------------------------
InitGP ==
  /\ disc_iters = 1
  /\ save_every_n_steps = 1
  /\ log_every_n_steps = 1
  /\ tensorboard_every_n_steps = 1
  /\ nBatches = 1
  /\ TrainStart
  /\ gp_pc = "rand"
  /\ \E B \in 1 .. MaxBatchSize :
       \E rs \in [1 .. B -> 0 .. MaxPix], fs \in [1 .. B -> 0 .. MaxPix] :
         /\ real_data = [x \in Idx(B) |-> Image(rs[x[1]], x)]
         /\ fake_data = [x \in Idx(B) |-> Image(fs[x[1]], x)]
  /\ eps_rand = <<>>
  /\ epsilon = <<>>
  /\ interpolates = <<>>

\* epsilon = torch.rand(batch_size, 1): uniform in [0, 1), one row per sample
GPRand ==
  /\ gp_pc = "rand"
  /\ LET batch_size == Shape0(real_data)
     IN  eps_rand' \in [1 .. batch_size -> 0 .. (EpsDen - 1)]
  /\ gp_pc' = "expand"
  /\ UNCHANGED <<real_data, fake_data, epsilon, interpolates>>
  /\ UNCHANGED <<cfgvars, trainvars>>

\* epsilon.expand(batch_size, nelement // batch_size).contiguous().view(batch_size, 3, 64, 64)
GPExpand ==
  /\ gp_pc = "expand"
  /\ LET batch_size == Shape0(real_data)
     IN  epsilon' = View(ExpandContiguous(eps_rand, batch_size,
                                          NElement(real_data) \div batch_size),
                         batch_size)
  /\ gp_pc' = "interpolate"
  /\ UNCHANGED <<real_data, fake_data, eps_rand, interpolates>>
  /\ UNCHANGED <<cfgvars, trainvars>>

\* interpolates = epsilon * real_data + ((1.0 - epsilon) * fake_data)
GPInterpolate ==
  /\ gp_pc = "interpolate"
  /\ interpolates' = Interpolate(epsilon, real_data, fake_data)
  /\ gp_pc' = "done"
  /\ UNCHANGED <<real_data, fake_data, eps_rand, epsilon>>
  /\ UNCHANGED <<cfgvars, trainvars>>

NextGP ==
  \/ GPRand
  \/ GPExpand
  \/ GPInterpolate

SpecGP == InitGP /\ [][NextGP]_vars

\* ---- properties -----------------------------------------------------------
InBody == pc \in {"gen_backward", "gen_optim", "disc_backward", "disc_optim"}

\* step j has run its optimizer update and its add_scalar calls
StepWritten(j) == j \in DOMAIN steps /\ (j < Len(steps) \/ ~InBody)

\* step j has run to the end of the loop body
StepEnded(j) ==
  j \in DOMAIN steps /\ (j < Len(steps) \/ pc \in {"fetch", "select", "done"})

Count(w, e) == Cardinality({i \in DOMAIN w : w[i] = e})

LastStep == steps[Len(steps)]

TrackedMetrics == {"generator_loss", "discriminator_loss", "real_score",
                   "generated_score", "gradient_penalty"}

\* C1: for disc_iters >= 1, step i is a generator step exactly when
\* i mod (disc_iters+1) = disc_iters and a discriminator step otherwise, and
\* every generator step is preceded by disc_iters consecutive discriminator steps.
C1_StepKindCadence ==
  disc_iters >= 1 =>
    \A j \in DOMAIN steps :
      /\ steps[j].kind = "gen" <=> steps[j].idx % (disc_iters + 1) = disc_iters
      /\ steps[j].kind = "disc" <=> steps[j].idx % (disc_iters + 1) # disc_iters
      /\ steps[j].kind = "gen" =>
           /\ j > disc_iters
           /\ \A i \in (j - disc_iters) .. (j - 1) : steps[i].kind = "disc"

C1_Witness ==
  /\ disc_iters = 5
  /\ Len(steps) = 12
  /\ {j \in DOMAIN steps : steps[j].kind = "gen"} = {6, 12}
  /\ steps[6].idx = 5
  /\ steps[12].idx = 11

\* C2: in every step exactly one network's parameters change: a discriminator
\* step leaves the generator's parameters at their pre-step values, a generator
\* step leaves the discriminator's.
C2_UpdateIsolation ==
  (Len(steps) > 0 /\ ~InBody /\ pc # "select") =>
    /\ LastStep.kind = "disc" =>
         params["gen"] = pre["gen"] /\ params["disc"] # pre["disc"]
    /\ LastStep.kind = "gen" =>
         params["disc"] = pre["disc"] /\ params["gen"] # pre["gen"]

C2_Witness ==
  /\ pc = "tensorboard"
  /\ LastStep.kind = "disc"
  /\ grads["gen"] # {}
  /\ params["gen"] = pre["gen"]
  /\ params["disc"] = pre["disc"] + 1
  /\ \E j \in DOMAIN steps : steps[j].kind = "gen"

\* C3: whenever a configuration value is non-positive, the function fails
\* before any optimizer step or metric write has happened.
C3_ValidatedBeforeLoop ==
  (\/ disc_iters <= 0
   \/ save_every_n_steps <= 0
   \/ log_every_n_steps <= 0
   \/ tensorboard_every_n_steps <= 0) =>
    /\ scalars = <<>>
    /\ params = [n \in Nets |-> 0]

\* C4 (as stated): in every step each of the five tracked metrics is written
\* exactly once, keyed by the step's index.
C4_EveryMetricEveryStep ==
  \A j \in DOMAIN steps :
    StepWritten(j) =>
      \A tag \in TrackedMetrics : Count(scalars, <<tag, steps[j].idx>>) = 1

\* C4 (amended): a step that reaches its metric writes writes each metric of
\* its own kind exactly once, keyed by the step's index, and no other metric:
\* a generator step writes generator_loss, a discriminator step writes
\* discriminator_loss, real_score, generated_score and gradient_penalty.
C4_KindMetricsOncePerStep ==
  /\ \A j \in DOMAIN steps :
       StepWritten(j) =>
         \A tag \in TrackedMetrics :
           Count(scalars, <<tag, steps[j].idx>>) =
             IF (steps[j].kind = "gen") = (tag = "generator_loss") THEN 1 ELSE 0
  /\ \A i \in DOMAIN scalars :
       /\ scalars[i][1] \in TrackedMetrics
       /\ \E j \in DOMAIN steps : StepWritten(j) /\ steps[j].idx = scalars[i][2]

C4_Witness ==
  /\ pc = "fetch"
  /\ \E j \in DOMAIN steps : steps[j].kind = "gen"
  /\ \E j \in DOMAIN steps : steps[j].kind = "disc"
  /\ Len(scalars) >= 5

\* C5: for every processed step whose index is a multiple of
\* save_every_n_steps a checkpoint keyed by that index is saved, and none is
\* saved at other steps.
C5_CheckpointCadence ==
  save_every_n_steps > 0 =>
    \A j \in DOMAIN steps :
      StepEnded(j) =>
        (steps[j].idx \in saved <=> steps[j].idx % save_every_n_steps = 0)

\* C6: the k-th batch taken from the loader (k = 0, 1, ...) is processed with
\* step index offset + k, never reset, and that index is the one used for the
\* step-kind selection, the log cadence tests and the metric keys of the step.
C6_StepCounter ==
  /\ k > 0 => batch_idx = batch_idx_offset + (k - 1)
  /\ Len(steps) \in {k - 1, k}
  /\ \A j \in DOMAIN steps :
       LET idx == batch_idx_offset + (j - 1) IN
       /\ steps[j].ord = j - 1
       /\ steps[j].idx = idx
       /\ StepWritten(j) => \E tag \in TrackedMetrics : Count(scalars, <<tag, idx>>) = 1
       /\ (StepEnded(j) /\ log_every_n_steps > 0) =>
            Count(printed, idx) = IF idx % log_every_n_steps = 0 THEN 1 ELSE 0
       /\ (StepEnded(j) /\ tensorboard_every_n_steps > 0) =>
            /\ Count(imgs, <<"img_in", idx>>) =
                 IF idx % tensorboard_every_n_steps = 0 THEN 1 ELSE 0
            /\ Count(imgs, <<"img_out", idx>>) =
                 IF idx % tensorboard_every_n_steps = 0 THEN 1 ELSE 0
  /\ \A i \in DOMAIN scalars : scalars[i][2] - batch_idx_offset + 1 \in DOMAIN steps
  /\ \A i \in DOMAIN imgs : imgs[i][2] - batch_idx_offset + 1 \in DOMAIN steps
  /\ \A i \in DOMAIN printed : printed[i] - batch_idx_offset + 1 \in DOMAIN steps

C6_Witness ==
  /\ pc = "done"
  /\ k = 6
  /\ disc_iters = 1
  /\ log_every_n_steps = 2
  /\ tensorboard_every_n_steps = 2
  /\ printed = <<0, 2, 4>>
  /\ Len(imgs) = 6
  /\ Len(scalars) = 15

\* C7: the backward pass of a discriminator step computes no gradient for the
\* generator's parameters and accumulates nothing into their gradient buffers.
C7_GeneratorFrozenInDiscStep ==
  /\ pc = "disc_backward" => "gen" \notin loss
  /\ pc = "disc_optim" => <<batch_idx, "discriminator_loss">> \notin grads["gen"]

\* C8: at the backward pass of every discriminator step the discriminator's
\* parameters are trainable, and at the backward pass of every generator step
\* they are frozen and get no gradient, whatever steps came before.
C8_RequiresGradFollowsKind ==
  /\ pc = "disc_backward" => requires_grad /\ "disc" \in loss
  /\ pc = "disc_optim" =>
       requires_grad /\ <<batch_idx, "discriminator_loss">> \in grads["disc"]
  /\ pc = "gen_backward" => ~requires_grad /\ "disc" \notin loss
  /\ pc = "gen_optim" =>
       ~requires_grad /\ <<batch_idx, "generator_loss">> \notin grads["disc"]

C8_Witness ==
  /\ pc = "disc_optim"
  /\ Len(steps) >= 2
  /\ steps[Len(steps) - 1].kind = "gen"
  /\ LastStep.kind = "disc"
  /\ requires_grad
  /\ <<batch_idx, "discriminator_loss">> \in grads["disc"]

\* C10: when optim_gen.step() runs the generator's gradient buffers hold
\* exactly the gradients of that step's generator loss, and when
\* optim_disc.step() runs the discriminator's hold exactly those of that
\* step's discriminator loss.
C10_OwnGradientsOnly ==
  /\ pc = "gen_optim" => grads["gen"] = {<<batch_idx, "generator_loss">>}
  /\ pc = "disc_optim" => grads["disc"] = {<<batch_idx, "discriminator_loss">>}

C10_Witness ==
  /\ pc = "gen_optim"
  /\ Len(steps) >= 3
  /\ steps[Len(steps) - 1].kind = "disc"
  /\ \E j \in DOMAIN steps : j < Len(steps) /\ steps[j].kind = "gen"
  /\ grads["gen"] = {<<batch_idx, "generator_loss">>}
  /\ grads["disc"] # {}

\* C9: one interpolation coefficient per sample, the same at every
\* channel/spatial position of the sample, and the interpolated value at every
\* position is coefficient*real + (1-coefficient)*generated.
C9_PerSampleCoefficient ==
  /\ gp_pc \in {"interpolate", "done"} =>
       /\ DOMAIN epsilon = DOMAIN real_data
       /\ \A x \in DOMAIN epsilon : epsilon[x] = eps_rand[x[1]]
       /\ \A x, y \in DOMAIN epsilon : x[1] = y[1] => epsilon[x] = epsilon[y]
  /\ gp_pc = "done" =>
       /\ DOMAIN interpolates = DOMAIN real_data
       /\ \A x \in DOMAIN interpolates :
            interpolates[x] = eps_rand[x[1]] * real_data[x]
                              + (EpsDen - eps_rand[x[1]]) * fake_data[x]

C9_Witness ==
  /\ gp_pc = "done"
  /\ Shape0(real_data) >= 2
  /\ eps_rand[1] # eps_rand[2]
  /\ \E x \in DOMAIN real_data : real_data[x] # fake_data[x]
  /\ \E x, y \in DOMAIN interpolates : x[1] = 1 /\ y[1] = 1 /\ interpolates[x] # interpolates[y]

====
